---------------------------- MODULE Spec2Model ----------------------------
(***************************************************************************)
(* Model of the Hugging Face compatibility pass of                         *)
(* scripts/inference/convert_composer_to_hf.py: process_file (parse, walk, *)
(* classify, rewrite, prune, emit) and the worklist loop of                *)
(* edit_files_for_hf_compatibility.                                        *)
(*                                                                         *)
(* Strings are TLA+ strings.  A source text is the sequence of its         *)
(* statements; a "from" statement is written with its dotted reference     *)
(* ("..pkg.mod"), which parse splits into level and module and unparse     *)
(* joins again.                                                            *)
(***************************************************************************)
EXTENDS Naturals, Sequences, FiniteSets, TLC

(***************************************************************************)
(* Bounds of the model.                                                    *)
(***************************************************************************)
\* statements of the seed file in the statement family of initial states
MaxStmts == 2
\* imports of the seed file in the dependency-graph family of initial states
MaxImports == 2
\* the per-path count of process_file calls saturates here
CountCap == 2

(***************************************************************************)
(* F applied to the value of v, v evaluated once.                          *)
(***************************************************************************)
Let(v, F(_)) == CHOOSE y \in {F(x) : x \in {v}} : TRUE

(***************************************************************************)
(* str methods and os.path functions used by the code.                     *)
(***************************************************************************)
startswith(s, p) == Len(s) >= Len(p) /\ SubSeq(s, 1, Len(p)) = p

endswith(s, p) == Len(s) >= Len(p) /\ SubSeq(s, Len(s) - Len(p) + 1, Len(s)) = p

\* the first index of character c in s, 0 when there is none
RECURSIVE find(_, _, _)
find(s, c, i) ==
    IF i > Len(s) THEN 0
    ELSE IF SubSeq(s, i, i) = c THEN i
    ELSE find(s, c, i + 1)

RECURSIVE split(_, _)
split(str, c) ==
    Let(str, LAMBDA s :
    Let(find(s, c, 1), LAMBDA i :
        IF i = 0 THEN <<s>>
        ELSE <<SubSeq(s, 1, i - 1)>> \o split(SubSeq(s, i + 1, Len(s)), c)))

Last(seq) == seq[Len(seq)]

basename(path) == Let(split(path, "/"), LAMBDA parts : Last(parts))

join(folder, name) == folder \o "/" \o name

RECURSIVE dirname(_)
dirname(path) ==
    IF path = "" \/ SubSeq(path, Len(path), Len(path)) = "/"
    THEN SubSeq(path, 1, Len(path) - 1)
    ELSE dirname(SubSeq(path, 1, Len(path) - 1))

(***************************************************************************)
(* Python's None and an optional string.                                   *)
(***************************************************************************)
None == <<>>

Some(s) == <<s>>

(***************************************************************************)
(* ast.parse and ast.unparse.  Statements that carry a block.              *)
(***************************************************************************)
BlockKinds == {"ClassDef", "FunctionDef", "If"}

Children(n) == IF n.kind \in BlockKinds THEN n.body ELSE <<>>

RECURSIVE LeadingDots(_)
LeadingDots(ref) ==
    IF Len(ref) > 0 /\ SubSeq(ref, 1, 1) = "."
    THEN 1 + LeadingDots(SubSeq(ref, 2, Len(ref)))
    ELSE 0

RECURSIVE Dots(_)
Dots(n) == IF n = 0 THEN "" ELSE "." \o Dots(n - 1)

\* a block without a statement is a SyntaxError
RECURSIVE ParseOK(_)
ParseOK(text) ==
    \A i \in 1..Len(text) :
        text[i].kind \in BlockKinds =>
            /\ Len(text[i].body) > 0
            /\ ParseOK(text[i].body)

\* "from ..pkg.mod import x": level 2, module "pkg.mod"; "from . import x": no module
RECURSIVE parse(_)
parse(text) ==
    IF text = <<>> THEN <<>>
    ELSE Let(Head(text),
             LAMBDA s :
                <<IF s.kind = "ImportFrom"
                  THEN Let(LeadingDots(s.ref),
                           LAMBDA lv :
                              [kind |-> "ImportFrom",
                               module |-> IF lv = Len(s.ref) THEN None
                                          ELSE Some(SubSeq(s.ref, lv + 1, Len(s.ref))),
                               level |-> lv])
                  ELSE IF s.kind \in BlockKinds
                  THEN [s EXCEPT !.body = parse(s.body)]
                  ELSE s>>)
         \o parse(Tail(text))

RECURSIVE unparse(_)
unparse(tree) ==
    IF tree = <<>> THEN <<>>
    ELSE Let(Head(tree),
             LAMBDA n :
                <<IF n.kind = "ImportFrom"
                  THEN [kind |-> "ImportFrom",
                        ref |-> Dots(n.level)
                                  \o (IF n.module = None THEN "" ELSE n.module[1])]
                  ELSE IF n.kind \in BlockKinds
                  THEN [n EXCEPT !.body = unparse(n.body)]
                  ELSE n>>)
         \o unparse(Tail(tree))

(***************************************************************************)
(* Nodes are identified by their position: the indices leading to them.    *)
(***************************************************************************)
RECURSIVE NodeAt(_, _)
NodeAt(tree, pos) ==
    IF Len(pos) = 1 THEN tree[pos[1]]
    ELSE NodeAt(tree[pos[1]].body, Tail(pos))

RECURSIVE SetModule(_, _, _)
SetModule(tree, pos, m) ==
    IF Len(pos) = 1 THEN [tree EXCEPT ![pos[1]].module = m]
    ELSE [tree EXCEPT ![pos[1]].body = SetModule(tree[pos[1]].body, Tail(pos), m)]

\* the positions of the n nodes directly below position p
RECURSIVE Below(_, _)
Below(p, n) == IF n = 0 THEN <<>> ELSE Below(p, n - 1) \o <<p \o <<n>>>>

\* ast.walk: breadth first, a node's children appended to the queue
RECURSIVE walkQueue(_, _)
walkQueue(tree, todo) ==
    IF todo = <<>> THEN <<>>
    ELSE Let(Head(todo),
             LAMBDA p :
                Let(Tail(todo) \o Below(p, Len(Children(NodeAt(tree, p)))),
                    LAMBDA rest : <<p>> \o walkQueue(tree, rest)))

walk(tree) == walkQueue(tree, Below(<<>>, Len(tree)))


(***************************************************************************)
(* The file system: path -> [kind |-> "file", text |-> ...] or             *)
(* [kind |-> "dir"].  The output folder and the root the internal package  *)
(* is installed under.                                                     *)
(***************************************************************************)
Folder == "/out"

PkgRoot == "/sp"

isfile(disk, path) == path \in DOMAIN disk /\ disk[path].kind = "file"

\* os.listdir(folder): the names of the entries directly in folder
listdir(disk, folder) ==
    {basename(p) : p \in {q \in DOMAIN disk : dirname(q) = folder}}

RECURSIVE JoinSegs(_)
JoinSegs(segments) ==
    Let(segments, LAMBDA segs :
        IF Len(segs) = 0 THEN ""
        ELSE "/" \o Head(segs) \o JoinSegs(Tail(segs)))

(***************************************************************************)
(* find_module_file: importlib.import_module(name).__file__.  A dotted     *)
(* name is a package (its __init__.py), a source module or an extension    *)
(* module under the root; None stands for the import raising.              *)
(***************************************************************************)
find_module_file(disk, module_name) ==
    Let(PkgRoot \o JoinSegs(split(module_name, ".")), LAMBDA base :
        IF isfile(disk, base \o "/__init__.py") THEN Some(base \o "/__init__.py")
        ELSE IF isfile(disk, base \o ".py") THEN Some(base \o ".py")
        ELSE IF isfile(disk, base \o ".so") THEN Some(base \o ".so")
        ELSE None)

convert_to_relative_import(module_name) ==
    Let(split(module_name, "."), LAMBDA parts : "." \o Last(parts))

(***************************************************************************)
(* process_file, lines 299-322: the loop over ast.walk(tree).  acc is the  *)
(* state of the loop: the tree (internal imports are rewritten in place),  *)
(* new_files_to_process, nodes_to_remove, the exception raised (if any)    *)
(* and, as a record of what the loop did, the label it gave each           *)
(* ImportFrom and the imports it rewrote.                                  *)
(***************************************************************************)
IsInternal(module) == startswith(module, "llmfoundry")

IsExcluded(module) == startswith(module, "composer") \/ startswith(module, "omegaconf")

IsComposerClass(n) == n.kind = "ClassDef" /\ startswith(n.name, "Composer")

IsAllAssign(n) ==
    /\ n.kind = "Assign"
    /\ Len(n.targets) = 1
    /\ n.targets[1].type = "Name"
    /\ n.targets[1].id = "__all__"

VisitNode(disk, acc, pos) ==
    Let(NodeAt(acc.tree, pos), LAMBDA n :
    IF n.kind = "ImportFrom" /\ n.module = None
    THEN [acc EXCEPT !.err = "AttributeError"]
    ELSE IF n.kind = "ImportFrom" /\ IsInternal(n.module[1])
    THEN Let(find_module_file(disk, n.module[1]), LAMBDA module_path :
         IF module_path = None
         THEN [acc EXCEPT !.err = "ModuleNotFoundError"]
         ELSE [acc EXCEPT
                 !.tree = SetModule(acc.tree, pos,
                                    Some(convert_to_relative_import(n.module[1]))),
                 !.new_files_to_process = Append(@, module_path[1]),
                 !.labels = @ \cup {<<n.module[1], "internal">>},
                 !.rewritten = @ \cup {[pos |-> pos, module |-> n.module[1],
                                        target |-> module_path[1],
                                        ref |-> convert_to_relative_import(n.module[1])]}])
    ELSE IF n.kind = "ImportFrom" /\ IsExcluded(n.module[1])
    THEN [acc EXCEPT !.nodes_to_remove = Append(@, pos),
                     !.labels = @ \cup {<<n.module[1], "excluded">>}]
    ELSE IF IsComposerClass(n)
    THEN [acc EXCEPT !.nodes_to_remove = Append(@, pos)]
    ELSE IF IsAllAssign(n)
    THEN [acc EXCEPT !.nodes_to_remove = Append(@, pos)]
    ELSE IF n.kind = "ImportFrom"
    THEN [acc EXCEPT !.labels = @ \cup {<<n.module[1], "unrelated">>}]
    ELSE acc)

\* the loop: a raised exception ends it
RECURSIVE WalkLoop(_, _, _)
WalkLoop(disk, acc, order) ==
    IF order = <<>> \/ acc.err # "none" THEN acc
    ELSE Let(VisitNode(disk, acc, Head(order)),
             LAMBDA next : WalkLoop(disk, next, Tail(order)))

(***************************************************************************)
(* DeleteSpecificNodes.visit: a node in nodes_to_remove is dropped with    *)
(* everything below it, any other node is visited field by field.          *)
(***************************************************************************)
Range(seq) == {seq[i] : i \in 1..Len(seq)}

RECURSIVE DeleteFrom(_, _, _, _)
DeleteFrom(tree, prefix, nodes_to_remove, i) ==
    IF i > Len(tree) THEN <<>>
    ELSE LET pos == prefix \o <<i>>
             n == tree[i]
             rest == DeleteFrom(tree, prefix, nodes_to_remove, i + 1)
         IN  IF pos \in Range(nodes_to_remove) THEN rest
             ELSE IF n.kind \in BlockKinds
             THEN <<[n EXCEPT !.body = DeleteFrom(n.body, pos, nodes_to_remove, 1)]>> \o rest
             ELSE <<n>> \o rest

DeleteSpecificNodes(tree, nodes_to_remove) == DeleteFrom(tree, <<>>, nodes_to_remove, 1)

\* a position survives the pruning when no prefix of it was removed
Survives(pos, nodes_to_remove) ==
    \A k \in 1..Len(pos) : SubSeq(pos, 1, k) \notin Range(nodes_to_remove)

(***************************************************************************)
(* process_file, lines 327-331: the name the file is written under.        *)
(***************************************************************************)
new_file_path_unflattened(file_path, folder_path) ==
    join(folder_path, basename(file_path))

new_file_path(file_path, folder_path) ==
    Let(split(file_path, "/"), LAMBDA parts :
        IF Last(parts) = "__init__.py"
        THEN join(folder_path, parts[Len(parts) - 1] \o ".py")
        ELSE join(folder_path, Last(parts)))

(***************************************************************************)
(* process_file as a whole.  err = "none" when it returns; otherwise the   *)
(* exception that left it, and nothing has been written.                   *)
(***************************************************************************)
process_file(disk, file_path, folder_path) ==
    LET source == disk[file_path].text
        failed(e) == [err |-> e, new_files_to_process |-> <<>>, path |-> "",
                      text |-> <<>>, source |-> source, labels |-> {}, refs |-> {}]
    IN
    IF ~ParseOK(source) THEN failed("SyntaxError")
    ELSE
    Let(parse(source), LAMBDA tree :
    Let(WalkLoop(disk,
                 [tree |-> tree, new_files_to_process |-> <<>>,
                  nodes_to_remove |-> <<>>, err |-> "none",
                  labels |-> {}, rewritten |-> {}],
                 walk(tree)),
        LAMBDA acc :
    LET new_tree == DeleteSpecificNodes(acc.tree, acc.nodes_to_remove)
        out == new_file_path(file_path, folder_path)
    IN
    IF acc.err # "none" THEN [failed(acc.err) EXCEPT !.labels = acc.labels]
    ELSE IF out \in DOMAIN disk /\ disk[out].kind = "dir"
    THEN [failed("IsADirectoryError") EXCEPT !.labels = acc.labels]
    ELSE [err |-> "none",
          new_files_to_process |-> acc.new_files_to_process,
          path |-> out,
          text |-> unparse(new_tree),
          source |-> source,
          labels |-> acc.labels,
          refs |-> {[module |-> r.module, target |-> r.target, ref |-> r.ref] :
                      r \in {x \in acc.rewritten : Survives(x.pos, acc.nodes_to_remove)}}]))

(***************************************************************************)
(* edit_files_for_hf_compatibility.  A loop state is the record            *)
(* [fs, files_to_process, files_processed_and_queued, pc].                 *)
(***************************************************************************)
\* line 351
ShouldEnqueueAlways(file, seen) == TRUE

ShouldEnqueue(file, seen) == file \notin seen

\* lines 350-353: for file in to_add
RECURSIVE Enqueue(_, _)
Enqueue(s, to_add) ==
    IF to_add = <<>> THEN s
    ELSE LET file == Head(to_add) IN
         IF ShouldEnqueue(file, s.files_processed_and_queued)
         THEN Let([s EXCEPT !.files_to_process = Append(@, file),
                            !.files_processed_and_queued = @ \cup {file}],
                  LAMBDA t : Enqueue(t, Tail(to_add)))
         ELSE Enqueue(s, Tail(to_add))

\* line 348
IsPythonFile(disk, path) == isfile(disk, path) /\ endswith(path, ".py")

\* line 347: list.pop() takes the last element
Peeked(s) == s

Popped(s) == [s EXCEPT !.files_to_process = SubSeq(@, 1, Len(@) - 1)]

\* line 348 false: nothing is done with the path and the loop goes on
SkipFileAndStop(s) == [Popped(s) EXCEPT !.pc = "done"]

SkipFile(s) == Popped(s)

\* lines 347-353 if an exception of process_file were caught and the loop went on
LoopBodyContinuing(s) ==
    LET to_process == Last(s.files_to_process) IN
    IF IsPythonFile(s.fs, to_process)
    THEN Let(process_file(s.fs, to_process, Folder),
             LAMBDA r :
                IF r.err # "none"
                THEN Popped(s)
                ELSE Enqueue([Popped(s) EXCEPT
                                 !.fs = (r.path :> [kind |-> "file", text |-> r.text]) @@ @],
                             r.new_files_to_process))
    ELSE SkipFile(s)

\* lines 347-353: one iteration of the loop
LoopBody(s) ==
    LET to_process == Last(s.files_to_process) IN
    IF IsPythonFile(s.fs, to_process)
    THEN Let(process_file(s.fs, to_process, Folder),
             LAMBDA r :
                IF r.err # "none"
                THEN [Popped(s) EXCEPT !.pc = "aborted"]
                ELSE Enqueue([Popped(s) EXCEPT
                                 !.fs = (r.path :> [kind |-> "file", text |-> r.text]) @@ @],
                             r.new_files_to_process))
    ELSE SkipFile(s)

\* line 346
While(s) ==
    IF Len(s.files_to_process) > 0 THEN LoopBody(s)
    ELSE [s EXCEPT !.pc = "done"]

\* the whole run from a loop state
RECURSIVE Drain(_)
Drain(s) == IF s.pc # "run" THEN s ELSE Drain(While(s))

\* lines 339-344: the loop state the listing `order` of the folder gives
Start(disk, order) ==
    [fs |-> disk,
     files_to_process |-> [i \in 1..Len(order) |-> join(Folder, order[i])],
     files_processed_and_queued |-> {join(Folder, order[i]) : i \in 1..Len(order)},
     pc |-> "run"]

\* the orders os.listdir may list the .py entries of the folder in
Listings(disk) ==
    LET names == {n \in listdir(disk, Folder) : endswith(n, ".py")}
    IN  {o \in [1..Cardinality(names) -> names] :
            \A i, j \in 1..Cardinality(names) : i # j => o[i] # o[j]}

(***************************************************************************)
(* Source texts.                                                           *)
(***************************************************************************)
From(ref) == [kind |-> "ImportFrom", ref |-> ref]

Import(name) == [kind |-> "Import", name |-> name]

Class(name, body) == [kind |-> "ClassDef", name |-> name, body |-> body]

Def(name, body) == [kind |-> "FunctionDef", name |-> name, body |-> body]

If(body) == [kind |-> "If", body |-> body]

Name(id) == [type |-> "Name", id |-> id]

Assign(targets) == [kind |-> "Assign", targets |-> targets]

AnnAssign(target) == [kind |-> "AnnAssign", target |-> target]

AugAssign(target) == [kind |-> "AugAssign", target |-> target]

Pass == [kind |-> "Pass"]

File(text) == [kind |-> "file", text |-> text]

Dir == [kind |-> "dir"]

SeqsUpTo(S, n) == UNION {[1..k -> S] : k \in 0..n}

(***************************************************************************)
(* The initial file systems.  The folder holds modeling.py and             *)
(* config.json; the internal package is installed under PkgRoot.           *)
(***************************************************************************)
Layout(modeling, root, models, mlayers, ulayers) ==
    (join(Folder, "modeling.py") :> File(modeling))
    @@ (join(Folder, "config.json") :> File(<<>>))
    @@ ("/sp/llmfoundry/__init__.py" :> File(root))
    @@ ("/sp/llmfoundry/models/__init__.py" :> File(models))
    @@ ("/sp/llmfoundry/models/layers.py" :> File(mlayers))
    @@ ("/sp/llmfoundry/utils/layers.py" :> File(ulayers))
    @@ ("/sp/llmfoundry/ops.so" :> File(<<>>))
    @@ ("/sp/llmfoundryx.py" :> File(<<>>))

\* the statements the seed file is made of in the statement family
StmtPool ==
    { From("llmfoundry.models.layers"), From("llmfoundry.ops"),
      From("llmfoundry.gone"), From("llmfoundryx"),
      From("composer.utils"), From("composerx"),
      From("torch"), From("."),
      Import("composer"),
      Class("ComposerMPT", <<Pass>>),
      Assign(<<Name("__all__")>>), Assign(<<Name("__all__"), Name("x")>>),
      AnnAssign(Name("__all__")), AugAssign(Name("__all__")),
      Def("f", <<From("composer.utils")>>),
      If(<<From("llmfoundry.models.layers"), Pass>>),
      If(<<Def("h", <<From("omegaconf")>>), Pass>>) }

StatementDisks ==
    {Layout(m, <<>>, <<>>, <<>>, <<>>) : m \in SeqsUpTo(StmtPool, MaxStmts)}

\* the internal modules the seed file imports in the dependency-graph family
GraphImports ==
    { From("llmfoundry"), From("llmfoundry.models"),
      From("llmfoundry.models.layers"), From("llmfoundry.utils.layers") }

\* what else the folder holds: nothing, a seed file layers.py, a directory layers.py
FolderExtras ==
    { <<>>,
      join(Folder, "layers.py") :> File(<<From("llmfoundry")>>),
      join(Folder, "layers.py") :> Dir }

GraphDisks ==
    {Layout(m, <<From("llmfoundry.models")>>, models, mlayers,
            <<From("llmfoundry.models.layers")>>) @@ extra :
        m \in SeqsUpTo(GraphImports, MaxImports),
        models \in {<<>>, <<From("llmfoundry.models.layers")>>, <<From("llmfoundry")>>},
        mlayers \in {<<>>, <<From("llmfoundry.models")>>, <<From("llmfoundry.gone")>>},
        extra \in FolderExtras}

(***************************************************************************)
(* The state.  fs, files_to_process, files_processed_and_queued are the    *)
(* program's; pc is where the run is ("run", "done", "aborted") and err    *)
(* the exception that aborted it.  The rest records what the run did:      *)
(* fs0 the file system at the start, enqueued the paths ever put on        *)
(* files_to_process, procCount the completed process_file calls per path,  *)
(* emitted the (source path, written path) pairs, refs the rewritten       *)
(* internal imports of each written file as it stands, labels the label    *)
(* given to each ImportFrom module, last the latest process_file call.     *)
(***************************************************************************)
VARIABLES fs, files_to_process, files_processed_and_queued, pc, err,
          fs0, enqueued, procCount, emitted, refs, labels, last

vars == <<fs, files_to_process, files_processed_and_queued, pc, err,
          fs0, enqueued, procCount, emitted, refs, labels, last>>

LoopState ==
    [fs |-> fs, files_to_process |-> files_to_process,
     files_processed_and_queued |-> files_processed_and_queued, pc |-> pc]

Init ==
    \E disk \in StatementDisks \cup GraphDisks :
        \E order \in Listings(disk) :
            LET s == Start(disk, order) IN
            /\ fs = s.fs
            /\ files_to_process = s.files_to_process
            /\ files_processed_and_queued = s.files_processed_and_queued
            /\ pc = "run"
            /\ err = "none"
            /\ fs0 = disk
            /\ enqueued = s.files_processed_and_queued
            /\ procCount = <<>>
            /\ emitted = {}
            /\ refs = <<>>
            /\ labels = {}
            /\ last = <<>>

SetLoopState(t) ==
    /\ fs' = t.fs
    /\ files_to_process' = t.files_to_process
    /\ files_processed_and_queued' = t.files_processed_and_queued
    /\ pc' = t.pc

Count(p) == IF p \in DOMAIN procCount THEN procCount[p] ELSE 0

\* lines 347-353 when process_file returns
Process ==
    /\ pc = "run"
    /\ Len(files_to_process) > 0
    /\ IsPythonFile(fs, Last(files_to_process))
    /\ \E p \in {Last(files_to_process)}, t \in {While(LoopState)} :
       \E r \in {process_file(fs, p, Folder)} :
           /\ r.err = "none"
           /\ SetLoopState(t)
           /\ enqueued' = enqueued \cup Range(t.files_to_process)
           /\ procCount' = (p :> (IF Count(p) < CountCap THEN Count(p) + 1 ELSE CountCap))
                              @@ procCount
           /\ emitted' = emitted \cup {<<p, r.path>>}
           /\ refs' = (r.path :> r.refs) @@ refs
           /\ labels' = labels \cup r.labels
           /\ last' = <<[path |-> p, out |-> r.path, source |-> r.source, text |-> r.text]>>
    /\ UNCHANGED <<err, fs0>>

\* lines 347-349 when process_file raises: the exception leaves the run
Raise ==
    /\ pc = "run"
    /\ Len(files_to_process) > 0
    /\ IsPythonFile(fs, Last(files_to_process))
    /\ \E r \in {process_file(fs, Last(files_to_process), Folder)},
          t \in {While(LoopState)} :
           /\ r.err # "none"
           /\ SetLoopState(t)
           /\ err' = r.err
           /\ labels' = labels \cup r.labels
    /\ UNCHANGED <<fs0, enqueued, procCount, emitted, refs, last>>

\* lines 347-348 when the path is no .py file
Skip ==
    /\ pc = "run"
    /\ Len(files_to_process) > 0
    /\ ~IsPythonFile(fs, Last(files_to_process))
    /\ \E t \in {While(LoopState)} : SetLoopState(t)
    /\ UNCHANGED <<err, fs0, enqueued, procCount, emitted, refs, labels, last>>

\* line 346 when files_to_process is empty
Finish ==
    /\ pc = "run"
    /\ Len(files_to_process) = 0
    /\ \E t \in {While(LoopState)} : SetLoopState(t)
    /\ UNCHANGED <<err, fs0, enqueued, procCount, emitted, refs, labels, last>>

Next == Process \/ Raise \/ Skip \/ Finish

Spec == Init /\ [][Next]_vars

\* the loop is the only thread of control: it takes its next step
FairSpec == Spec /\ WF_vars(Next)

(***************************************************************************)
(* What the claims speak of.                                               *)
(***************************************************************************)
\* the .py files of the output folder
OutputFiles == {p \in DOMAIN fs : dirname(p) = Folder /\ IsPythonFile(fs, p)}

\* a dotted name matches a prefix on whole segments
SegMatch(module, prefix) == module = prefix \/ startswith(module, prefix \o ".")

\* every statement of a text, at any depth
RECURSIVE AllStmts(_)
AllStmts(text) ==
    UNION {{text[i]} \cup AllStmts(Children(text[i])) : i \in 1..Len(text)}

\* the module an import statement of a text names
ImportedName(stmt) ==
    IF stmt.kind = "ImportFrom"
    THEN SubSeq(stmt.ref, LeadingDots(stmt.ref) + 1, Len(stmt.ref))
    ELSE stmt.name

IsImport(stmt) == stmt.kind \in {"ImportFrom", "Import"}

NoDuplicates(seq) == \A i, j \in 1..Len(seq) : i # j => seq[i] # seq[j]

EmittedFrom(p) == {e \in emitted : e[1] = p}

\* the output path a rewritten relative reference points to
RefPath(ref) == join(Folder, SubSeq(ref, 2, Len(ref)) \o ".py")

RECURSIVE IsSubseq(_, _)
IsSubseq(a, b) ==
    IF a = <<>> THEN TRUE
    ELSE IF b = <<>> THEN FALSE
    ELSE IF Head(a) = Head(b) THEN IsSubseq(Tail(a), Tail(b))
    ELSE IsSubseq(a, Tail(b))

\* no two processed paths were written to the same output path
NoCollision == \A e1, e2 \in emitted : e1[2] = e2[2] => e1[1] = e2[1]

\* an import statement the code matches with none of its prefixes
IsUnmatchedImport(stmt) ==
    /\ IsImport(stmt)
    /\ ~IsInternal(ImportedName(stmt))
    /\ ~IsExcluded(ImportedName(stmt))

(***************************************************************************)
(* C1.  Closure completeness: when the run has finished without error,     *)
(* every internal import rewritten in a file of the output folder has its  *)
(* resolved file emitted under the name the relative reference points to.  *)
(* The code rewrites the import and then skips a resolved path that is no  *)
(* .py file, so this is violated.                                          *)
(***************************************************************************)
C1_ClosureComplete ==
    pc = "done" =>
        \A o \in DOMAIN refs : \A r \in refs[o] :
            <<r.target, RefPath(r.ref)>> \in emitted

C3_Termination ==
    /\ <>(pc = "aborted" \/ (pc = "done" /\ files_to_process = <<>>))
    /\ [](\A p \in DOMAIN procCount : procCount[p] <= 1)

\* a finished run over two files that import each other
C3_Witness ==
    /\ pc = "done"
    /\ files_to_process = <<>>
    /\ \E a, b \in emitted :
          /\ a[1] # b[1]
          /\ a[2] \in DOMAIN refs /\ b[2] \in DOMAIN refs
          /\ \E r \in refs[a[2]] : r.target = b[1]
          /\ \E r \in refs[b[2]] : r.target = a[1]

(***************************************************************************)
(* C4.  Excluded-import absence: after a finished run no .py file of the   *)
(* output folder holds an import statement, of either form and at any      *)
(* depth, whose module matches composer or omegaconf.  The code looks at   *)
(* ImportFrom nodes only, so `import composer` stays.                      *)
(***************************************************************************)
C4_NoExcludedImport ==
    pc = "done" =>
        \A p \in OutputFiles : \A stmt \in AllStmts(fs[p].text) :
            IsImport(stmt) =>
                /\ ~SegMatch(ImportedName(stmt), "composer")
                /\ ~SegMatch(ImportedName(stmt), "omegaconf")

(***************************************************************************)
(* C5.  Syntactic validity: the text process_file writes for a             *)
(* syntactically valid source parses again.  Pruning the only statement    *)
(* of a block leaves the block empty, so this is violated.                 *)
(***************************************************************************)
C5_OutputParses ==
    \A i \in 1..Len(last) : ParseOK(last[i].source) => ParseOK(last[i].text)

(***************************************************************************)
(* C6.  Flattening rule: an __init__.py lying in directory D is written    *)
(* to <folder>/D.py and any other file to <folder>/<its base name>; the    *)
(* name a resolved internal module is emitted under is the last dotted     *)
(* segment of the module name plus ".py".                                  *)
(***************************************************************************)
C6_Flattening ==
    /\ \A i \in 1..Len(last) :
          LET src == last[i].path IN
          IF basename(src) = "__init__.py"
          THEN last[i].out = join(Folder, basename(dirname(src)) \o ".py")
          ELSE last[i].out = join(Folder, basename(src))
    /\ \A o \in DOMAIN refs : \A r \in refs[o] : \A e \in EmittedFrom(r.target) :
          e[2] = join(Folder, Last(split(r.module, ".")) \o ".py")

\* a package's __init__.py has just been written, and it is the target of an import
C6_Witness ==
    /\ last # <<>>
    /\ basename(last[1].path) = "__init__.py"
    /\ last[1].out = join(Folder, "models.py")
    /\ \E o \in DOMAIN refs : \E r \in refs[o] :
          r.target = last[1].path /\ r.ref = ".models"
    /\ \E e \in emitted : basename(e[1]) # "__init__.py"

(***************************************************************************)
(* C7.  Export-symbol absence: after a finished run no .py file of the     *)
(* output folder holds a top-level assignment with __all__ among its       *)
(* targets, be it plain, chained, annotated or augmented.  The code        *)
(* removes the plain single-target form only.                              *)
(***************************************************************************)
C7_NoExportList ==
    pc = "done" =>
        \A p \in OutputFiles : \A i \in 1..Len(fs[p].text) :
            LET stmt == fs[p].text[i] IN
            /\ stmt.kind = "Assign" =>
                  \A k \in 1..Len(stmt.targets) : stmt.targets[k] # Name("__all__")
            /\ stmt.kind \in {"AnnAssign", "AugAssign"} => stmt.target # Name("__all__")

(***************************************************************************)
(* C8.  Classification matches prefixes on whole dotted segments: an       *)
(* import is labelled internal iff its module is llmfoundry or starts      *)
(* with "llmfoundry.", and excluded iff it is composer or omegaconf or     *)
(* starts with one of them and a dot.  The code tests str.startswith.      *)
(***************************************************************************)
C8_SegmentMatching ==
    \A l \in labels :
        /\ l[2] = "internal" <=> SegMatch(l[1], "llmfoundry")
        /\ l[2] = "excluded" <=>
              (SegMatch(l[1], "composer") \/ SegMatch(l[1], "omegaconf"))

(***************************************************************************)
(* C9 as claimed.  Order independence: the file system a finished run      *)
(* leaves is the one every listing order of the folder leaves, also when   *)
(* two processed paths are written to the same output name.                *)
(***************************************************************************)
C9_OrderIndependent ==
    pc = "done" =>
        \A order \in Listings(fs0) : Drain(Start(fs0, order)).fs = fs

(***************************************************************************)
(* C9 as amended.  Order independence when no two processed paths are      *)
(* written to the same output name: then the file system a finished run    *)
(* leaves is the one every listing order of the folder leaves.             *)
(***************************************************************************)
C9_OrderIndependentWithoutCollision ==
    (pc = "done" /\ NoCollision) =>
        \A order \in Listings(fs0) : Drain(Start(fs0, order)).fs = fs

\* a finished run without collision, over a folder with two listings and three written files
C9_Witness ==
    /\ pc = "done"
    /\ NoCollision
    /\ Cardinality(Listings(fs0)) > 1
    /\ Cardinality(emitted) >= 3

(***************************************************************************)
(* C10.  Unmatched imports pass through: an import statement whose module  *)
(* the code matches with none of its prefixes, with or without a module    *)
(* name, causes no error and stands in the output as it stood in the       *)
(* source, in the same order.  A "from . import x" has no module name and  *)
(* the prefix test raises AttributeError on it.                            *)
(***************************************************************************)
C10_UnmatchedPassThrough ==
    /\ err # "AttributeError"
    /\ \A i \in 1..Len(last) :
          IsSubseq(SelectSeq(last[i].source, IsUnmatchedImport), last[i].text)

\* a file holds, at some depth, an internal import that find_module_file cannot resolve
HasUnresolvableImport(disk, path) ==
    \E stmt \in AllStmts(disk[path].text) :
        /\ stmt.kind = "ImportFrom"
        /\ IsInternal(ImportedName(stmt))
        /\ find_module_file(disk, ImportedName(stmt)) = None

(***************************************************************************)
(* C11.  Fatal abort on an unresolvable internal import: when the file F   *)
(* the loop pops holds an internal import that find_module_file cannot     *)
(* resolve, the step aborts the run with an exception: nothing is written  *)
(* for F (the file system and the emitted pairs are as before, so every    *)
(* file emitted earlier keeps its content), only F has left                *)
(* files_to_process, and once aborted the run pops and writes nothing      *)
(* more.                                                                   *)
(***************************************************************************)
C11_FatalAbort ==
    [][/\ (/\ pc = "run"
           /\ files_to_process # <<>>
           /\ IsPythonFile(fs, Last(files_to_process))
           /\ HasUnresolvableImport(fs, Last(files_to_process)))
          => (/\ pc' = "aborted"
              /\ err' # "none"
              /\ fs' = fs
              /\ emitted' = emitted
              /\ files_to_process'
                    = SubSeq(files_to_process, 1, Len(files_to_process) - 1))
       /\ pc = "aborted"
          => (pc' = "aborted" /\ fs' = fs /\ files_to_process' = files_to_process)
      ]_vars

\* the run has aborted on an unresolvable import after a file was written, paths still pending
C11_Witness ==
    /\ pc = "aborted"
    /\ err = "ModuleNotFoundError"
    /\ emitted # {}
    /\ last # <<>>
    /\ fs[last[1].out].text = last[1].text
    /\ files_to_process # <<>>
    /\ \E p \in files_processed_and_queued :
          /\ p \notin Range(files_to_process)
          /\ p \notin {e[1] : e \in emitted}
          /\ HasUnresolvableImport(fs, p)

=============================================================================
